---- MODULE Spec2Model ----
(***************************************************************************)
(* Model of fuyu28/my-blog-new: the password gate of protected posts       *)
(* (src/app/post/[slug]/actions.ts) and the post repository                *)
(* (scripts/generate-content.ts, src/lib/content/posts.ts).                *)
(***************************************************************************)
EXTENDS Integers, Sequences, FiniteSets, TLC

(***************************************************************************)
(* Bounds of the model.                                                    *)
(***************************************************************************)
\* number of clock advances a behaviour may take
MaxTicks == 3

\* number of directories under the posts root
MaxDirs == 3

(***************************************************************************)
(* The access gate: actions.ts                                             *)
(***************************************************************************)
VARIABLES
  posts,      \* generatedPosts as seen by getPostBySlug: slug -> entry or Missing
  cookies,    \* the caller's cookie store: cookie name -> [value, expires]
  now,        \* wall clock, in seconds
  ticks,      \* number of clock advances taken
  last,       \* the last server action call and what it returned
  grant,      \* slug -> the last successful verification of the slug (history)
  grantPw,    \* slug -> the password that verification was made with (history)
  pwChanged,  \* slug -> the password was edited since that verification (history)
  intervened  \* slug -> a failed verification, or a call on another slug, came
              \* after that verification (history)

gateVars == <<posts, cookies, now, ticks, last, grant, grantPw, pwChanged, intervened>>

VARIABLES
  rootExists,      \* the posts root is there
  files,           \* directory name under the posts root -> its entry file
  op,              \* the repository operation in progress, or "idle"
  slugs,           \* the slugs it discovered
  results,         \* index of slugs -> Pending, or the settled outcome of the task
  completion,      \* the indices in the order their tasks settled
  returned,        \* the last finished operation and what it returned or threw
  generatedPosts   \* the snapshot written by the build

repoVars == <<rootExists, files, op, slugs, results, completion, returned, generatedPosts>>

VARIABLES
  dirents,   \* the listing of the posts root: entry name -> kind of entry
  disc       \* the listPostSlugs call in progress: its position and locals

discVars == <<dirents, disc>>

VARIABLES
  pathCall   \* a resolvePostFilePath call: its slug and, once made, its result

VARIABLES
  cache,       \* the "use cache" store: cache key -> entry
  cacheNow,    \* its clock, in seconds
  cacheTicks,  \* number of clock advances taken
  cacheLast    \* the last cache operation and what it did

cacheVars == <<cache, cacheNow, cacheTicks, cacheLast>>

extVars == <<discVars, pathCall, cacheVars>>

vars == <<gateVars, repoVars, extVars>>

\* the directory names, in the order of String.prototype.localeCompare
LocaleOrder == <<"a", "b", "c", "d", "e">>

DirNames == {LocaleOrder[i] : i \in 1..MaxDirs}

GateSlugs == {"a", "b"}

\* a slug that has no entry in generatedPosts
Missing == [missing |-> TRUE]

Passwords == {"pw1", "pw2"}

SubmittedPasswords == {"pw1", "pw2"}

AccessLevels == {"public", "unlisted", "private", "protected"}

ConfigError == "access: \"protected\" no kiji ni ha password wo settei shite kudasai."

EmptyInputError == "password wo nyuuryoku shite kudasai."

MismatchError == "password ga icchi shimasen."

\* a lifetime of twelve minutes
MaxAgeMinutes == 60 * 12

\* maxAge: 60 * 60 * 12
MaxAge == 60 * 60 * 12

\* the clock advances by one second or by one second less than the lifetime
TickSteps == {1, MaxAge - 1}

\* one cookie name for every slug
protectedCookieNameShared(slug) == "protected-post"

protectedCookieName(slug) == "protected-post-" \o slug

\* a digest that is the value itself
sha256Plain(value) == value

\* createHash("sha256").update(value).digest("hex")
sha256(value) ==
  CASE value = "pw1" -> "c592df4a86933b92addc9842402ddf198c638ea9be58916ee6e3734e1e3152f8"
    [] value = "pw2" -> "93915a0a4bf8f634cb1856494dd4304472ad46b9827f541f76b6761c49cc55b0"
    [] value = ""    -> "e3b0c44298fc1c149afbf4c8996fb92427ae41e4649b934ca495991b7852b855"

\* the form of a submission: with a password field, or without one
\* (formData.get("password") is then null, not a string)
EmptyForm == [fields |-> {}]

FormDatas == {EmptyForm} \cup {[fields |-> {"password"}, password |-> p] : p \in SubmittedPasswords \cup {""}}

\* the frontmatter of a post: password is an optional field
Frontmatters ==
  {[access |-> a] : a \in AccessLevels}
    \cup {[access |-> "protected", password |-> p] : p \in Passwords \cup {""}}
    \cup {[access |-> "public", password |-> "pw1"]}

PostOf(slug, fm) == [frontmatter |-> fm, content |-> "body of " \o slug]

\* !frontmatter.password
PasswordMissing(fm) == "password" \notin DOMAIN fm \/ fm.password = ""

\* getPostBySlug: the entry of the slug, or the not-found signal
NotFound == [thrown |-> "NEXT_HTTP_ERROR_FALLBACK;404"]

getPostBySlug(slug) == IF posts[slug] = Missing THEN NotFound ELSE posts[slug]

\* cookieStore.get(name): the cookies of that name the caller still holds
cookieStoreGet(name) ==
  {cookies[n] : n \in {m \in DOMAIN cookies : m = name /\ now < cookies[m].expires}}

\* cookieStore.set(name, value, {maxAge})
cookieStoreSet(name, value, maxAge) ==
  [n \in DOMAIN cookies \cup {name} |->
     IF n = name THEN [value |-> value, expires |-> now + maxAge] ELSE cookies[n]]

\* access granted to whoever holds a cookie of the name, whatever its value
hasProtectedAccessAnyValue(slug, expectedHash) ==
  cookieStoreGet(protectedCookieName(slug)) # {}

hasProtectedAccess(slug, expectedHash) ==
  \E cookie \in cookieStoreGet(protectedCookieName(slug)) : cookie.value = expectedHash

\* the outcome of a call: what it returns (or throws), the cookie store it
\* leaves, and whether it read or wrote the cookie store
Outcome(result, store, read, wrote) ==
  [result |-> result, cookies |-> store, read |-> read, wrote |-> wrote]

\* the cookie compared with the password instead of its hash
loadProtectedPostPlain(slug) ==
  LET post == getPostBySlug(slug) IN
  IF post = NotFound THEN Outcome(NotFound, cookies, FALSE, FALSE)
  ELSE IF post.frontmatter.access # "protected"
    THEN Outcome([success |-> TRUE, content |-> post.content], cookies, FALSE, FALSE)
  ELSE IF PasswordMissing(post.frontmatter)
    THEN Outcome([error |-> ConfigError], cookies, FALSE, FALSE)
  ELSE IF ~hasProtectedAccess(slug, post.frontmatter.password)
    THEN Outcome([success |-> FALSE], cookies, TRUE, FALSE)
  ELSE Outcome([success |-> TRUE, content |-> post.content], cookies, TRUE, FALSE)

\* the password check made before the configuration check
loadProtectedPostNoConfigCheck(slug) ==
  LET post == getPostBySlug(slug) IN
  IF post = NotFound THEN Outcome(NotFound, cookies, FALSE, FALSE)
  ELSE IF post.frontmatter.access # "protected"
    THEN Outcome([success |-> TRUE, content |-> post.content], cookies, FALSE, FALSE)
  ELSE IF "password" \notin DOMAIN post.frontmatter
    THEN Outcome([success |-> TRUE, content |-> post.content], cookies, FALSE, FALSE)
  ELSE IF ~hasProtectedAccess(slug, sha256(post.frontmatter.password))
    THEN Outcome([success |-> FALSE], cookies, TRUE, FALSE)
  ELSE Outcome([success |-> TRUE, content |-> post.content], cookies, TRUE, FALSE)

loadProtectedPost(slug) ==
  LET post == getPostBySlug(slug) IN
  IF post = NotFound THEN Outcome(NotFound, cookies, FALSE, FALSE)
  ELSE IF post.frontmatter.access # "protected"
    THEN Outcome([success |-> TRUE, content |-> post.content], cookies, FALSE, FALSE)
  ELSE IF PasswordMissing(post.frontmatter)
    THEN Outcome([error |-> ConfigError], cookies, FALSE, FALSE)
  ELSE IF ~hasProtectedAccess(slug, sha256(post.frontmatter.password))
    THEN Outcome([success |-> FALSE], cookies, TRUE, FALSE)
  ELSE Outcome([success |-> TRUE, content |-> post.content], cookies, TRUE, FALSE)

\* the credential issued before the hashes are compared
verifyProtectedPostPasswordSetsFirst(slug, formData) ==
  LET post == getPostBySlug(slug) IN
  IF post = NotFound THEN Outcome(NotFound, cookies, FALSE, FALSE)
  ELSE IF post.frontmatter.access # "protected"
    THEN Outcome([success |-> TRUE, content |-> post.content], cookies, FALSE, FALSE)
  ELSE IF PasswordMissing(post.frontmatter)
    THEN Outcome([error |-> ConfigError], cookies, FALSE, FALSE)
  ELSE IF "password" \notin formData.fields \/ formData.password = ""
    THEN Outcome([error |-> EmptyInputError], cookies, FALSE, FALSE)
  ELSE IF sha256(formData.password) # sha256(post.frontmatter.password)
    THEN Outcome([error |-> MismatchError],
                 cookieStoreSet(protectedCookieName(slug), sha256(formData.password), MaxAge),
                 FALSE, TRUE)
  ELSE Outcome([success |-> TRUE, content |-> post.content],
               cookieStoreSet(protectedCookieName(slug),
                              sha256(post.frontmatter.password), MaxAge),
               FALSE, TRUE)

\* the submitted password examined before the access level
verifyProtectedPostPasswordInputFirst(slug, formData) ==
  LET post == getPostBySlug(slug) IN
  IF post = NotFound THEN Outcome(NotFound, cookies, FALSE, FALSE)
  ELSE IF "password" \notin formData.fields \/ formData.password = ""
    THEN Outcome([error |-> EmptyInputError], cookies, FALSE, FALSE)
  ELSE IF post.frontmatter.access # "protected"
    THEN Outcome([success |-> TRUE, content |-> post.content], cookies, FALSE, FALSE)
  ELSE IF PasswordMissing(post.frontmatter)
    THEN Outcome([error |-> ConfigError], cookies, FALSE, FALSE)
  ELSE IF sha256(formData.password) # sha256(post.frontmatter.password)
    THEN Outcome([error |-> MismatchError], cookies, FALSE, FALSE)
  ELSE Outcome([success |-> TRUE, content |-> post.content],
               cookieStoreSet(protectedCookieName(slug),
                              sha256(post.frontmatter.password), MaxAge),
               FALSE, TRUE)

verifyProtectedPostPassword(slug, formData) ==
  LET post == getPostBySlug(slug) IN
  IF post = NotFound THEN Outcome(NotFound, cookies, FALSE, FALSE)
  ELSE IF post.frontmatter.access # "protected"
    THEN Outcome([success |-> TRUE, content |-> post.content], cookies, FALSE, FALSE)
  ELSE IF PasswordMissing(post.frontmatter)
    THEN Outcome([error |-> ConfigError], cookies, FALSE, FALSE)
  ELSE IF "password" \notin formData.fields \/ formData.password = ""
    THEN Outcome([error |-> EmptyInputError], cookies, FALSE, FALSE)
  ELSE IF sha256(formData.password) # sha256(post.frontmatter.password)
    THEN Outcome([error |-> MismatchError], cookies, FALSE, FALSE)
  ELSE Outcome([success |-> TRUE, content |-> post.content],
               cookieStoreSet(protectedCookieName(slug),
                              sha256(post.frontmatter.password), MaxAge),
               FALSE, TRUE)

NoCall == [op |-> "none"]

NoGrant == -1

NoPassword == [none |-> TRUE]

\* a posts root that was not listed, and a listPostSlugs that was not called
NoListing == [name \in {} |-> 0]

NotCalled == [pc |-> "start"]

\* no resolvePostFilePath call
NoPathCall == [slug |-> << >>]

\* an empty cache, and no cache operation
NoEntries == [key \in {} |-> 0]

NoCacheCall == [op |-> "none"]

GateInit ==
  /\ \E present \in SUBSET GateSlugs, fm \in [GateSlugs -> Frontmatters] :
       posts = [s \in GateSlugs |-> IF s \in present THEN PostOf(s, fm[s]) ELSE Missing]
  /\ cookies = [n \in {} |-> 0]
  /\ now = 0
  /\ ticks = 0
  /\ last = NoCall
  /\ grant = [s \in GateSlugs |-> NoGrant]
  /\ grantPw = [s \in GateSlugs |-> NoPassword]
  /\ pwChanged = [s \in GateSlugs |-> FALSE]
  /\ intervened = [s \in GateSlugs |-> FALSE]
  \* the repository at rest
  /\ rootExists = TRUE
  /\ files = [name \in DirNames |-> [kind |-> "noindex"]]
  /\ op = "idle"
  /\ slugs = << >>
  /\ results = << >>
  /\ completion = << >>
  /\ returned = [op |-> "none"]
  /\ generatedPosts = << >>
  \* no discovery under way
  /\ dirents = NoListing
  /\ disc = NotCalled
  /\ pathCall = NoPathCall
  /\ cache = NoEntries
  /\ cacheNow = 0
  /\ cacheTicks = 0
  /\ cacheLast = NoCacheCall

\* history: the slugs holding a grant that a call on `slug` intervenes on
Intervening(slug, failed) ==
  [s \in GateSlugs |-> intervened[s] \/ (grant[s] # NoGrant /\ (s # slug \/ failed))]

\* a request calls the server action loadProtectedPost(slug)
LoadProtectedPost(slug) ==
  LET out == loadProtectedPost(slug) IN
  /\ cookies' = out.cookies
  /\ last' = [op |-> "load", slug |-> slug, out |-> out, post |-> posts[slug],
              before |-> cookies, at |-> now]
  /\ intervened' = Intervening(slug, FALSE)
  /\ UNCHANGED <<posts, now, ticks, grant, grantPw, pwChanged>>
  /\ UNCHANGED <<repoVars, extVars>>

\* a form submission calls the server action verifyProtectedPostPassword
VerifyProtectedPostPassword(slug, formData) ==
  LET out == verifyProtectedPostPassword(slug, formData) IN
  /\ cookies' = out.cookies
  /\ last' = [op |-> "verify", slug |-> slug, form |-> formData, out |-> out,
              post |-> posts[slug], before |-> cookies, at |-> now]
  /\ IF out.wrote
       THEN /\ grant' = [grant EXCEPT ![slug] = now]
            /\ grantPw' = [grantPw EXCEPT ![slug] = formData.password]
            /\ pwChanged' = [pwChanged EXCEPT ![slug] = FALSE]
            /\ intervened' = [Intervening(slug, FALSE) EXCEPT ![slug] = FALSE]
       ELSE /\ intervened' = Intervening(slug, TRUE)
            /\ UNCHANGED <<grant, grantPw, pwChanged>>
  /\ UNCHANGED <<posts, now, ticks>>
  /\ UNCHANGED <<repoVars, extVars>>

\* time passes
Tick(d) ==
  /\ ticks < MaxTicks
  /\ now' = now + d
  /\ ticks' = ticks + 1
  /\ last' = NoCall
  /\ UNCHANGED <<posts, cookies, grant, grantPw, pwChanged, intervened>>
  /\ UNCHANGED <<repoVars, extVars>>

\* the author edits (or removes) the password of a protected post and the
\* site is rebuilt
SetPassword(slug, fm) ==
  /\ posts[slug] # Missing
  /\ posts[slug].frontmatter.access = "protected"
  /\ fm.access = "protected"
  /\ posts[slug].frontmatter # fm
  /\ posts' = [posts EXCEPT ![slug] = PostOf(slug, fm)]
  /\ pwChanged' = [pwChanged EXCEPT ![slug] = TRUE]
  /\ last' = NoCall
  /\ UNCHANGED <<cookies, now, ticks, grant, grantPw, intervened>>
  /\ UNCHANGED <<repoVars, extVars>>

GateNext ==
  \/ \E slug \in GateSlugs : LoadProtectedPost(slug)
  \/ \E slug \in GateSlugs, formData \in FormDatas : VerifyProtectedPostPassword(slug, formData)
  \/ \E d \in TickSteps : Tick(d)
  \/ \E slug \in GateSlugs, fm \in Frontmatters : SetPassword(slug, fm)


(***************************************************************************)
(* Array.prototype.sort, as the engines that run the site implement it for *)
(* arrays shorter than a merge run: V8 (TimSort: one natural run, then     *)
(* binary insertion) and JavaScriptCore (bottom-up merge sort).  The       *)
(* comparator of listPublicPosts is not a consistent one, so the engine's  *)
(* algorithm decides the order.                                            *)
(***************************************************************************)
Engines == {"v8", "jsc"}

Reverse(seq) == [i \in 1..Len(seq) |-> seq[Len(seq) + 1 - i]]

InsertAt(seq, pos, x) == SubSeq(seq, 1, pos - 1) \o <<x>> \o SubSeq(seq, pos, Len(seq))

\* V8 CountAndMakeRun: the length of the run that starts the array, and
\* whether it is a strictly descending one (which is then reversed)
RECURSIVE RunEnd(_, _, _, _)
RunEnd(seq, cmp, idx, descending) ==
  IF idx > Len(seq) THEN Len(seq)
  ELSE IF descending /\ cmp[<<seq[idx], seq[idx - 1]>>] >= 0 THEN idx - 1
  ELSE IF ~descending /\ cmp[<<seq[idx], seq[idx - 1]>>] < 0 THEN idx - 1
  ELSE RunEnd(seq, cmp, idx + 1, descending)

\* V8 BinaryInsertionSort: the position of pivot in the sorted prefix
RECURSIVE BinarySearch(_, _, _, _, _)
BinarySearch(sorted, cmp, pivot, left, right) ==
  IF left >= right THEN left
  ELSE LET mid == left + ((right - left) \div 2) IN
       IF cmp[<<pivot, sorted[mid + 1]>>] < 0
         THEN BinarySearch(sorted, cmp, pivot, left, mid)
         ELSE BinarySearch(sorted, cmp, pivot, mid + 1, right)

RECURSIVE BinaryInsertionSort(_, _, _)
BinaryInsertionSort(sorted, cmp, rest) ==
  IF rest = << >> THEN sorted
  ELSE BinaryInsertionSort(
         InsertAt(sorted, BinarySearch(sorted, cmp, Head(rest), 0, Len(sorted)) + 1, Head(rest)),
         cmp, Tail(rest))

TimSort(seq, cmp) ==
  IF Len(seq) < 2 THEN seq
  ELSE LET descending == cmp[<<seq[2], seq[1]>>] < 0
           runEnd == RunEnd(seq, cmp, 3, descending)
           run == SubSeq(seq, 1, runEnd)
       IN BinaryInsertionSort(IF descending THEN Reverse(run) ELSE run, cmp,
                              SubSeq(seq, runEnd + 1, Len(seq)))

\* JavaScriptCore merge: the right element is taken only when it compares
\* below the left one
RECURSIVE Merge(_, _, _)
Merge(left, right, cmp) ==
  IF right = << >> THEN left
  ELSE IF left = << >> THEN right
  ELSE IF cmp[<<Head(right), Head(left)>>] < 0
    THEN <<Head(right)>> \o Merge(left, Tail(right), cmp)
    ELSE <<Head(left)>> \o Merge(Tail(left), right, cmp)

Min(a, b) == IF a < b THEN a ELSE b

\* one pass of the bottom-up merge sort: adjacent blocks of `width` merged
RECURSIVE MergePass(_, _, _, _)
MergePass(seq, cmp, width, srcIndex) ==
  IF srcIndex >= Len(seq) THEN << >>
  ELSE LET leftEnd == Min(srcIndex + width, Len(seq))
           rightEnd == Min(leftEnd + width, Len(seq))
       IN Merge(SubSeq(seq, srcIndex + 1, leftEnd), SubSeq(seq, leftEnd + 1, rightEnd), cmp)
            \o MergePass(seq, cmp, width, srcIndex + 2 * width)

RECURSIVE MergeSort(_, _, _)
MergeSort(seq, cmp, width) ==
  IF width >= Len(seq) THEN seq
  ELSE MergeSort(MergePass(seq, cmp, width, 0), cmp, 2 * width)

\* array.sort(comparator): cmp is the comparator as a function on pairs
ArraySort(engine, seq, cmp) ==
  IF engine = "v8" THEN TimSort(seq, cmp) ELSE MergeSort(seq, cmp, 1)

(***************************************************************************)
(* The post repository: scripts/generate-content.ts (build-time ingestion  *)
(* into the snapshot generatedPosts), the live posts.ts that reads the     *)
(* file system, and the snapshot-backed src/lib/content/posts.ts.          *)
(***************************************************************************)
localeCompare(a, b) ==
  (CHOOSE i \in 1..Len(LocaleOrder) : LocaleOrder[i] = a)
    - (CHOOSE i \in 1..Len(LocaleOrder) : LocaleOrder[i] = b)

POST_ENTRY_FILENAME == "index.md"

\* Date values, as their getTime() in seconds, and their ISO strings
Dates == {[getTime |-> 1704067200], [getTime |-> 1717200000]}

toISOString(date) ==
  CASE date.getTime = 1704067200 -> "2024-01-01T00:00:00.000Z"
    [] date.getTime = 1717200000 -> "2024-06-01T00:00:00.000Z"

\* new Date(string)
NewDate(iso) ==
  CASE iso = "2024-01-01T00:00:00.000Z" -> [getTime |-> 1704067200]
    [] iso = "2024-06-01T00:00:00.000Z" -> [getTime |-> 1717200000]

\* the frontmatter of the valid entry files
ParsedFrontmatters ==
  {[title |-> "t", access |-> "public"]}
    \cup {[title |-> "t", access |-> "public", date |-> d] : d \in Dates}
    \cup {[title |-> "t", access |-> "private", date |-> [getTime |-> 1717200000]],
          [title |-> "t", access |-> "unlisted", date |-> [getTime |-> 1704067200]],
          [title |-> "t", access |-> "protected", password |-> "pw1"]}

\* a directory without index.md, an index.md that cannot be read, one whose
\* frontmatter does not validate, a valid one
EntryFiles ==
  {[kind |-> k] : k \in {"noindex", "unreadable", "invalid"}}
    \cup {[kind |-> "valid", frontmatter |-> fm] : fm \in ParsedFrontmatters}

\* fs.readFile(absolutePath, "utf-8"), then parsePost(raw)
parsePost(slug) ==
  IF files[slug].kind = "unreadable" THEN [thrown |-> "Error"]
  ELSE IF files[slug].kind = "invalid" THEN [thrown |-> "FrontmatterValidationError"]
  ELSE [frontmatter |-> files[slug].frontmatter, content |-> "body of " \o slug]

createContentSha(slug) == "sha1 of " \o slug

Range(seq) == {seq[i] : i \in 1..Len(seq)}

\* listPostSlugs: the directories that hold an entry file, sorted; throws
\* when there is none.  The names are pushed as their existence checks
\* complete, here last directory first; the sort makes the result the same.
listPostSlugs(engine) ==
  LET found == SelectSeq(Reverse(LocaleOrder),
                         LAMBDA name : name \in DirNames /\ files[name].kind # "noindex")
  IN IF Len(found) = 0 THEN [thrown |-> "No posts found"]
     ELSE [value |-> ArraySort(engine, found,
                               [p \in Range(found) \X Range(found) |-> localeCompare(p[1], p[2])])]

serializeFrontmatter(frontmatter) ==
  IF "date" \in DOMAIN frontmatter
    THEN [frontmatter EXCEPT !.date = [iso |-> toISOString(frontmatter.date)]]
    ELSE frontmatter

\* restoreDates, on the frontmatter: a Date is kept (copied), a string parsed
restoreDates(item) ==
  IF "date" \in DOMAIN item.frontmatter /\ "iso" \in DOMAIN item.frontmatter.date
    THEN [item EXCEPT !.frontmatter.date = NewDate(item.frontmatter.date.iso)]
    ELSE item

Pending == [status |-> "pending"]

\* the task of one slug in buildPosts
buildPostsTask(slug) ==
  LET parsed == parsePost(slug) IN
  IF "thrown" \in DOMAIN parsed THEN [status |-> "rejected", reason |-> parsed.thrown]
  ELSE [status |-> "fulfilled",
        value |-> [slug |-> slug,
                   path |-> "my-blog-contents/external-posts/" \o slug \o "/" \o POST_ENTRY_FILENAME,
                   sha |-> createContentSha(slug),
                   frontmatter |-> serializeFrontmatter(parsed.frontmatter),
                   content |-> parsed.content]]

\* the task of one slug in the live listPostsCached
listPostsCachedTask(slug) ==
  LET parsed == parsePost(slug) IN
  IF "thrown" \in DOMAIN parsed THEN [status |-> "rejected", reason |-> parsed.thrown]
  ELSE [status |-> "fulfilled",
        value |-> [slug |-> slug,
                   path |-> "external-posts/" \o slug \o "/" \o POST_ENTRY_FILENAME,
                   sha |-> createContentSha(slug),
                   frontmatter |-> parsed.frontmatter]]

\* entries pushed as the tasks settle
RECURSIVE CollectAsSettled(_, _)
CollectAsSettled(settled, k) ==
  IF k > Len(completion) THEN << >>
  ELSE (IF settled[completion[k]].status = "fulfilled"
          THEN <<settled[completion[k]].value>> ELSE << >>)
         \o CollectAsSettled(settled, k + 1)

\* results.forEach((result, index) => ...): the fulfilled values, by index
RECURSIVE CollectEntries(_, _)
CollectEntries(settled, index) ==
  IF index > Len(settled) THEN << >>
  ELSE (IF settled[index].status = "fulfilled" THEN <<settled[index].value>> ELSE << >>)
         \o CollectEntries(settled, index + 1)

\* the comparator with the undated posts first
compareUndatedFirst(a, b) ==
  IF "date" \notin DOMAIN a.frontmatter THEN -1
  ELSE IF "date" \notin DOMAIN b.frontmatter THEN 1
  ELSE b.frontmatter.date.getTime - a.frontmatter.date.getTime

\* the comparator of listPublicPosts
compareByDate(a, b) ==
  IF "date" \notin DOMAIN a.frontmatter THEN 1
  ELSE IF "date" \notin DOMAIN b.frontmatter THEN -1
  ELSE b.frontmatter.date.getTime - a.frontmatter.date.getTime

\* listPosts of either posts.ts, given what listPostsCached returned
listPosts(entries) == [i \in 1..Len(entries) |-> restoreDates(entries[i])]

\* listPublicPosts, given what listPosts returned
listPublicPosts(engine, allPosts) ==
  LET publicPosts == SelectSeq(allPosts, LAMBDA post : post.frontmatter.access = "public")
  IN ArraySort(engine, publicPosts,
               [p \in Range(publicPosts) \X Range(publicPosts) |-> compareByDate(p[1], p[2])])

Idle == [op |-> "none"]

\* assertPostsRootExists(postsRoot) when the root is not there
assertPostsRootExists == [thrown |-> "Posts root not found"]

RepoInit ==
  /\ \E exists \in BOOLEAN :
       /\ rootExists = exists
       /\ files \in IF exists THEN [DirNames -> EntryFiles]
                             ELSE {[name \in DirNames |-> [kind |-> "noindex"]]}
  /\ op = "idle"
  /\ slugs = << >>
  /\ results = << >>
  /\ completion = << >>
  /\ returned = Idle
  /\ generatedPosts = << >>
  \* the gate at rest
  /\ posts = [s \in GateSlugs |-> Missing]
  /\ cookies = [n \in {} |-> 0]
  /\ now = 0
  /\ ticks = 0
  /\ last = NoCall
  /\ grant = [s \in GateSlugs |-> NoGrant]
  /\ grantPw = [s \in GateSlugs |-> NoPassword]
  /\ pwChanged = [s \in GateSlugs |-> FALSE]
  /\ intervened = [s \in GateSlugs |-> FALSE]
  \* no discovery under way
  /\ dirents = NoListing
  /\ disc = NotCalled
  /\ pathCall = NoPathCall
  /\ cache = NoEntries
  /\ cacheNow = 0
  /\ cacheTicks = 0
  /\ cacheLast = NoCacheCall

\* buildPosts / the live listPostsCached up to Promise.allSettled: the posts
\* root is listed and one task per slug is started.  The site runs either on
\* the file system or on a snapshot, which is built once.
Discover(o, engine) ==
  LET discovered == IF rootExists THEN listPostSlugs(engine) ELSE assertPostsRootExists IN
  /\ op = "idle"
  /\ Len(generatedPosts) = 0
  /\ completion' = << >>
  /\ IF "thrown" \in DOMAIN discovered
       THEN /\ returned' = [op |-> o, thrown |-> discovered.thrown]
            /\ slugs' = << >>
            /\ results' = << >>
            /\ op' = "idle"
       ELSE /\ returned' = Idle
            /\ slugs' = discovered.value
            /\ results' = [i \in 1..Len(discovered.value) |-> Pending]
            /\ op' = o
  /\ UNCHANGED <<rootExists, files, generatedPosts>>
  /\ UNCHANGED <<gateVars, extVars>>

\* the task of one slug settles
Settle(index) ==
  /\ op # "idle"
  /\ index \in 1..Len(slugs)
  /\ results[index] = Pending
  /\ results' = [results EXCEPT ![index] =
                   IF op = "buildPosts" THEN buildPostsTask(slugs[index])
                                        ELSE listPostsCachedTask(slugs[index])]
  /\ completion' = Append(completion, index)
  /\ UNCHANGED <<rootExists, files, op, slugs, returned, generatedPosts>>
  /\ UNCHANGED <<gateVars, extVars>>

AllSettled == \A i \in 1..Len(slugs) : results[i] # Pending

\* buildPosts after Promise.allSettled, and main writing the snapshot
FinishBuildPosts ==
  LET entries == CollectEntries(results, 1) IN
  /\ op = "buildPosts"
  /\ AllSettled
  /\ op' = "idle"
  /\ IF Len(entries) = 0
       THEN /\ returned' = [op |-> op, thrown |-> "No valid posts generated. Check content and frontmatter."]
            /\ UNCHANGED generatedPosts
       ELSE /\ returned' = [op |-> op, value |-> entries]
            /\ generatedPosts' = entries
  /\ UNCHANGED <<rootExists, files, slugs, results, completion>>
  /\ UNCHANGED <<gateVars, extVars>>

\* the live listPosts after Promise.allSettled
FinishListPosts ==
  LET entries == CollectEntries(results, 1) IN
  /\ op = "listPostsCached"
  /\ AllSettled
  /\ op' = "idle"
  /\ returned' = [op |-> "listPosts", value |-> listPosts(entries)]
  /\ UNCHANGED <<rootExists, files, slugs, results, completion, generatedPosts>>
  /\ UNCHANGED <<gateVars, extVars>>

\* the live listPublicPosts after Promise.allSettled
FinishListPublicPosts(engine) ==
  LET allPosts == listPosts(CollectEntries(results, 1)) IN
  /\ op = "listPostsCached"
  /\ AllSettled
  /\ op' = "idle"
  /\ returned' = [op |-> "listPublicPosts", all |-> allPosts,
                  value |-> listPublicPosts(engine, allPosts)]
  /\ UNCHANGED <<rootExists, files, slugs, results, completion, generatedPosts>>
  /\ UNCHANGED <<gateVars, extVars>>

\* listPostsCached of the snapshot-backed posts.ts
listPostsCachedSnapshot ==
  IF Len(generatedPosts) = 0
    THEN [thrown |-> "No posts found in generated data. Run \"bun run generate:content\" before building."]
    ELSE [value |-> generatedPosts]

\* the snapshot-backed listPosts
SnapshotListPosts ==
  LET cached == listPostsCachedSnapshot IN
  /\ op = "idle"
  /\ returned' = IF "thrown" \in DOMAIN cached
                   THEN [op |-> "snapshot.listPosts", thrown |-> cached.thrown]
                   ELSE [op |-> "snapshot.listPosts", value |-> listPosts(cached.value)]
  /\ slugs' = << >>
  /\ results' = << >>
  /\ completion' = << >>
  /\ UNCHANGED <<rootExists, files, op, generatedPosts>>
  /\ UNCHANGED <<gateVars, extVars>>

\* the snapshot-backed listPublicPosts
SnapshotListPublicPosts(engine) ==
  LET cached == listPostsCachedSnapshot IN
  /\ op = "idle"
  /\ returned' = IF "thrown" \in DOMAIN cached
                   THEN [op |-> "snapshot.listPublicPosts", thrown |-> cached.thrown]
                   ELSE [op |-> "snapshot.listPublicPosts", all |-> listPosts(cached.value),
                         value |-> listPublicPosts(engine, listPosts(cached.value))]
  /\ slugs' = << >>
  /\ results' = << >>
  /\ completion' = << >>
  /\ UNCHANGED <<rootExists, files, op, generatedPosts>>
  /\ UNCHANGED <<gateVars, extVars>>

(***************************************************************************)
(* Slugs and directory names as strings of characters                      *)
(***************************************************************************)
\* String.prototype.trim, for the whitespace character " "
RECURSIVE trimStart(_)
trimStart(s) == IF Len(s) > 0 /\ Head(s) = " " THEN trimStart(Tail(s)) ELSE s

RECURSIVE trimEnd(_)
trimEnd(s) ==
  IF Len(s) > 0 /\ s[Len(s)] = " " THEN trimEnd(SubSeq(s, 1, Len(s) - 1)) ELSE s

trim(s) == trimEnd(trimStart(s))

\* String.prototype.includes, for one character
includes(s, c) == \E i \in 1..Len(s) : s[i] = c

\* String.prototype.startsWith
startsWith(s, prefix) ==
  Len(s) >= Len(prefix) /\ SubSeq(s, 1, Len(prefix)) = prefix

\* the Error that normalizeSlug and resolvePostFilePath throw
InvalidSlug(slug) == [thrown |-> "Invalid slug", slug |-> slug]

normalizeSlugKeepsSeparators(slug) ==
  LET cleaned == trim(slug) IN
  IF cleaned = << >> \/ cleaned = <<".">> \/ cleaned = <<".", ".">>
    THEN InvalidSlug(slug)
    ELSE [value |-> cleaned]

normalizeSlug(slug) ==
  LET cleaned == trim(slug) IN
  IF \/ Len(cleaned) = 0
     \/ cleaned = <<".">>
     \/ cleaned = <<".", ".">>
     \/ includes(cleaned, "/")
     \/ includes(cleaned, "\\")
    THEN InvalidSlug(slug)
    ELSE [value |-> cleaned]

\* the characters in the order of the root collation that localeCompare uses
CollationOrder == <<" ", ".", "/", "\\", "a", "b", "c", "d", "e", "g">>

CollationRank(c) == CHOOSE i \in 1..Len(CollationOrder) : CollationOrder[i] = c

\* String.prototype.localeCompare on strings of these characters
RECURSIVE localeCompareStrings(_, _)
localeCompareStrings(a, b) ==
  IF Len(a) = 0 /\ Len(b) = 0 THEN 0
  ELSE IF Len(a) = 0 THEN -1
  ELSE IF Len(b) = 0 THEN 1
  ELSE IF Head(a) # Head(b) THEN CollationRank(Head(a)) - CollationRank(Head(b))
  ELSE localeCompareStrings(Tail(a), Tail(b))

(***************************************************************************)
(* Content discovery: listPostSlugs                                        *)
(***************************************************************************)
\* the kinds of entry of the posts root: a plain file, a directory without
\* the entry file, a directory with it
EntryKinds ==
  { [isDirectory |-> FALSE, hasIndex |-> FALSE],
    [isDirectory |-> TRUE, hasIndex |-> FALSE],
    [isDirectory |-> TRUE, hasIndex |-> TRUE] }

\* the entry names of the model, in the order fs.readdir lists them
ReaddirOrder ==
  << <<"b">>, <<"a">>, <<".", "g">>, <<"a", " ">>, <<"g">>, <<" ">>,
     <<"a", "\\", "b">> >>

EntryNames == Range(ReaddirOrder)

\* entries.filter(isDirectory && !name.startsWith(".")).map(normalizeSlug)
DirNamesOf(listing) ==
  LET kept == SelectSeq(ReaddirOrder,
                        LAMBDA name : /\ name \in DOMAIN listing
                                      /\ listing[name].isDirectory
                                      /\ ~startsWith(name, <<".">>))
  IN [i \in 1..Len(kept) |-> normalizeSlug(kept[i])]

\* fs.access(path.join(postsRoot, slug, POST_ENTRY_FILENAME)) resolves
fsAccess(slug) == slug \in DOMAIN dirents /\ dirents[slug].hasIndex

DiscInit ==
  /\ \E names \in SUBSET EntryNames :
       /\ Cardinality(names) <= MaxDirs
       /\ dirents \in [names -> EntryKinds]
  /\ disc = NotCalled
  /\ pathCall = NoPathCall
  /\ cache = NoEntries
  /\ cacheNow = 0
  /\ cacheTicks = 0
  /\ cacheLast = NoCacheCall
  \* the gate and the repository at rest
  /\ posts = [s \in GateSlugs |-> Missing]
  /\ cookies = [n \in {} |-> 0]
  /\ now = 0
  /\ ticks = 0
  /\ last = NoCall
  /\ grant = [s \in GateSlugs |-> NoGrant]
  /\ grantPw = [s \in GateSlugs |-> NoPassword]
  /\ pwChanged = [s \in GateSlugs |-> FALSE]
  /\ intervened = [s \in GateSlugs |-> FALSE]
  /\ rootExists = TRUE
  /\ files = [name \in DirNames |-> [kind |-> "noindex"]]
  /\ op = "idle"
  /\ slugs = << >>
  /\ results = << >>
  /\ completion = << >>
  /\ returned = Idle
  /\ generatedPosts = << >>

\* listPostSlugs up to Promise.all: the listing is read, filtered and mapped
\* through normalizeSlug, whose throw rejects the call; the existence checks
\* of the directory names start
ReadDir ==
  /\ disc.pc = "start"
  /\ LET mapped == DirNamesOf(dirents)
         thrown == {i \in 1..Len(mapped) : "thrown" \in DOMAIN mapped[i]}
     IN IF thrown # {}
          THEN disc' = [pc |-> "done",
                        result |-> mapped[CHOOSE i \in thrown : \A j \in thrown : i <= j]]
          ELSE disc' = [pc |-> "checking",
                        dirNames |-> [i \in 1..Len(mapped) |-> mapped[i].value],
                        pending |-> 1..Len(mapped),
                        found |-> << >>]
  /\ UNCHANGED <<dirents, pathCall, cacheVars>>
  /\ UNCHANGED <<gateVars, repoVars>>

\* the existence check of one directory name settles: found.push(slug) when
\* the entry file is there, a warning and nothing else when it is not
Access(i) ==
  /\ disc.pc = "checking"
  /\ i \in disc.pending
  /\ disc' = [disc EXCEPT !.pending = @ \ {i},
                          !.found = IF fsAccess(disc.dirNames[i])
                                      THEN Append(@, disc.dirNames[i])
                                      ELSE @]
  /\ UNCHANGED <<dirents, pathCall, cacheVars>>
  /\ UNCHANGED <<gateVars, repoVars>>

\* Promise.all resolved: the zero check, then found.sort(localeCompare)
ReturnSlugs(engine) ==
  /\ disc.pc = "checking"
  /\ disc.pending = {}
  /\ disc' = [pc |-> "done",
              result |->
                IF Len(disc.found) = 0
                  THEN [thrown |-> "No posts found"]
                  ELSE [value |->
                          ArraySort(engine, disc.found,
                                    [p \in Range(disc.found) \X Range(disc.found)
                                       |-> localeCompareStrings(p[1], p[2])])]]
  /\ UNCHANGED <<dirents, pathCall, cacheVars>>
  /\ UNCHANGED <<gateVars, repoVars>>

DiscNext ==
  \/ ReadDir
  \/ \E i \in 1..MaxDirs : Access(i)
  \/ \E engine \in Engines : ReturnSlugs(engine)

(***************************************************************************)
(* Path resolution: resolvePostFilePath                                    *)
(***************************************************************************)
\* length of the slugs that are enumerated
MaxSlugLen == 4

\* path.sep of the POSIX path module
PathSep == "/"

\* the characters slugs are made of
SlugChars == {"a", ".", "/", "\\", " "}

\* the traversal slugs "../../etc/passwd" and "a/../../b"
EtcPasswd ==
  <<".", ".", "/", ".", ".", "/", "e", "t", "c", "/", "p", "a", "s", "s", "w", "d">>

UpAndOver == <<"a", "/", ".", ".", "/", ".", ".", "/", "b">>

Slugs == UNION {[1..n -> SlugChars] : n \in 0..MaxSlugLen} \cup {EtcPasswd, UpAndOver}

\* process.cwd() and resolvePostsRoot(): "/" and "/r"
Cwd == <<"/">>

PostsRoot == <<"/", "r">>

\* POST_ENTRY_FILENAME as characters
EntryFilename == <<"i", "n", "d", "e", "x", ".", "m", "d">>

\* the segments of a path between its separators
RECURSIVE SplitPath(_)
SplitPath(s) ==
  IF Len(s) = 0 THEN << << >> >>
  ELSE LET rest == SplitPath(Tail(s)) IN
       IF Head(s) = PathSep
         THEN << << >> >> \o rest
         ELSE << <<Head(s)>> \o Head(rest) >> \o Tail(rest)

\* path normalisation: empty and "." segments vanish, ".." removes the
\* segment before it and is dropped at the root
RECURSIVE NormalizeSegments(_, _)
NormalizeSegments(segs, acc) ==
  IF Len(segs) = 0 THEN acc
  ELSE NormalizeSegments(
         Tail(segs),
         IF Head(segs) = << >> \/ Head(segs) = <<".">> THEN acc
         ELSE IF Head(segs) = <<".", ".">>
           THEN IF Len(acc) > 0 THEN SubSeq(acc, 1, Len(acc) - 1) ELSE acc
         ELSE Append(acc, Head(segs)))

RECURSIVE JoinPath(_)
JoinPath(segs) ==
  IF Len(segs) = 0 THEN << >> ELSE <<PathSep>> \o Head(segs) \o JoinPath(Tail(segs))

\* path.resolve scans its arguments from the right up to the first absolute
\* one, falling back on the working directory
RECURSIVE Concatenated(_)
Concatenated(parts) ==
  IF Len(parts) = 0 THEN Cwd
  ELSE LET part == parts[Len(parts)] IN
       IF Len(part) > 0 /\ Head(part) = PathSep THEN part
       ELSE Concatenated(SubSeq(parts, 1, Len(parts) - 1)) \o <<PathSep>> \o part

pathResolve(parts) ==
  LET segs == NormalizeSegments(SplitPath(Concatenated(parts)), << >>) IN
  IF Len(segs) = 0 THEN <<PathSep>> ELSE JoinPath(segs)

\* slug.replace(/^\//, "")
stripLeadingSlash(slug) ==
  IF Len(slug) > 0 /\ Head(slug) = "/" THEN Tail(slug) ELSE slug

resolvePostFilePath(postsRoot, slug) ==
  LET safeSlug == normalizeSlug(stripLeadingSlash(slug)) IN
  IF "thrown" \in DOMAIN safeSlug THEN safeSlug
  ELSE LET candidate == pathResolve(<<postsRoot, safeSlug.value, EntryFilename>>)
           normalizedPostsRoot == pathResolve(<<postsRoot>>)
       IN IF /\ ~startsWith(candidate, normalizedPostsRoot \o <<PathSep>>)
             /\ candidate # normalizedPostsRoot
            THEN InvalidSlug(slug)
            ELSE [value |-> candidate]

PathInit ==
  /\ \E slug \in Slugs : pathCall = [slug |-> slug]
  /\ dirents = NoListing
  /\ disc = NotCalled
  /\ cache = NoEntries
  /\ cacheNow = 0
  /\ cacheTicks = 0
  /\ cacheLast = NoCacheCall
  \* the gate and the repository at rest
  /\ posts = [s \in GateSlugs |-> Missing]
  /\ cookies = [n \in {} |-> 0]
  /\ now = 0
  /\ ticks = 0
  /\ last = NoCall
  /\ grant = [s \in GateSlugs |-> NoGrant]
  /\ grantPw = [s \in GateSlugs |-> NoPassword]
  /\ pwChanged = [s \in GateSlugs |-> FALSE]
  /\ intervened = [s \in GateSlugs |-> FALSE]
  /\ rootExists = TRUE
  /\ files = [name \in DirNames |-> [kind |-> "noindex"]]
  /\ op = "idle"
  /\ slugs = << >>
  /\ results = << >>
  /\ completion = << >>
  /\ returned = Idle
  /\ generatedPosts = << >>

\* a caller resolves the slug against the posts root
ResolvePostFilePath ==
  /\ "result" \notin DOMAIN pathCall
  /\ pathCall' = [slug |-> pathCall.slug,
                  result |-> resolvePostFilePath(PostsRoot, pathCall.slug)]
  /\ UNCHANGED <<discVars, cacheVars>>
  /\ UNCHANGED <<gateVars, repoVars>>

PathNext == ResolvePostFilePath

(***************************************************************************)
(* Single-post reads: getPostBySlug of the live and of the snapshot-backed *)
(* posts.ts                                                                *)
(***************************************************************************)
\* the slugs that are requested: the directories, a slug with a leading
\* slash, a slug with no directory and a traversal slug
RequestSlugs ==
  {<<name>> : name \in DirNames}
    \cup {<<"/", "a">>, <<"g">>, <<".", ".", "/", "a">>}

\* fs.readFile(filePath, "utf-8") of <root>/<safeSlug>/index.md, then
\* parsePost(raw)
readAndParse(safeSlug) ==
  IF Len(safeSlug) # 1 \/ safeSlug[1] \notin DirNames \/ files[safeSlug[1]].kind = "noindex"
    THEN [thrown |-> "ENOENT"]
    ELSE parsePost(safeSlug[1])

\* getPostBySlugCached of the live posts.ts
getPostBySlugCachedLive(slug) ==
  IF ~rootExists THEN assertPostsRootExists
  ELSE LET filePath == resolvePostFilePath(PostsRoot, slug) IN
       IF "thrown" \in DOMAIN filePath THEN filePath
       ELSE readAndParse(normalizeSlug(stripLeadingSlash(slug)).value)

\* getPostBySlugCached of the snapshot-backed posts.ts
getPostBySlugCachedSnapshot(slug) ==
  LET found == SelectSeq(generatedPosts, LAMBDA post : <<post.slug>> = slug) IN
  IF Len(found) = 0 THEN [thrown |-> "Post not found"]
  ELSE [frontmatter |-> found[1].frontmatter, content |-> found[1].content]

\* try { return restoreDates(post) } catch { ...log...; notFound() }
getPostBySlugRethrows(post) ==
  IF "thrown" \in DOMAIN post /\ post.thrown = "FrontmatterValidationError"
    THEN post
    ELSE IF "thrown" \in DOMAIN post THEN NotFound ELSE restoreDates(post)

getPostBySlugOf(post) ==
  IF "thrown" \in DOMAIN post THEN NotFound ELSE restoreDates(post)

\* a page calls the live getPostBySlug(slug)
GetPostBySlug(slug) ==
  LET post == getPostBySlugCachedLive(slug) IN
  /\ op = "idle"
  /\ Len(generatedPosts) = 0
  /\ returned' = [op |-> "getPostBySlug", slug |-> slug, cached |-> post,
                  out |-> getPostBySlugOf(post)]
  /\ slugs' = << >>
  /\ results' = << >>
  /\ completion' = << >>
  /\ UNCHANGED <<rootExists, files, op, generatedPosts>>
  /\ UNCHANGED <<gateVars, extVars>>

\* a page calls the snapshot-backed getPostBySlug(slug)
SnapshotGetPostBySlug(slug) ==
  LET post == getPostBySlugCachedSnapshot(slug) IN
  /\ op = "idle"
  /\ returned' = [op |-> "snapshot.getPostBySlug", slug |-> slug, cached |-> post,
                  out |-> getPostBySlugOf(post)]
  /\ slugs' = << >>
  /\ results' = << >>
  /\ completion' = << >>
  /\ UNCHANGED <<rootExists, files, op, generatedPosts>>
  /\ UNCHANGED <<gateVars, extVars>>

RepoNext ==
  \/ \E o \in {"buildPosts", "listPostsCached"}, engine \in Engines : Discover(o, engine)
  \/ \E index \in 1..MaxDirs : Settle(index)
  \/ FinishBuildPosts
  \/ FinishListPosts
  \/ \E engine \in Engines : FinishListPublicPosts(engine)
  \/ SnapshotListPosts
  \/ \E engine \in Engines : SnapshotListPublicPosts(engine)
  \/ \E slug \in RequestSlugs : GetPostBySlug(slug)
  \/ \E slug \in RequestSlugs : SnapshotGetPostBySlug(slug)

(***************************************************************************)
(* The cache of the live posts.ts: "use cache", cacheLife, cacheTag        *)
(***************************************************************************)
\* number of clock advances of the cache a behaviour may take
MaxCacheTicks == 3

\* the clock advances by half an hour, or a second more
CacheSteps == {30 * 60, 30 * 60 + 1}

\* the slugs that are read through the cache
CachedSlugs == {"a", "b"}

\* cacheLife("hours"): cached for one hour
CacheLifeHours == 60 * 60

\* the cache keys of the two cached functions
ListKey == "listPostsCached"

PostKey(slug) == "getPostBySlugCached:" \o slug

CacheKeys == {ListKey} \cup {PostKey(slug) : slug \in CachedSlugs}

\* cacheTag("posts") of listPostsCached
listPostsCachedTags == {"posts"}

\* the single-post entry tagged like the list
getPostBySlugCachedTagsOfList(slug) == {"posts"}

\* cacheTag("posts", `post-${slug}`) of getPostBySlugCached
getPostBySlugCachedTags(slug) == {"posts", "post-" \o slug}

CacheTags == {"posts"} \cup {"post-" \o slug : slug \in CachedSlugs}

\* the entry of the key is there and not older than its lifetime
Cached(key) ==
  /\ key \in DOMAIN cache
  /\ cacheNow - cache[key].storedAt <= cache[key].life

\* a call of a cached function: served from its entry, or run and stored
\* under its tags and lifetime
CacheRead(key, tags, life) ==
  /\ cacheLast' = [op |-> "read", key |-> key, hit |-> Cached(key),
                   age |-> IF key \in DOMAIN cache THEN cacheNow - cache[key].storedAt ELSE 0,
                   before |-> cache]
  /\ cache' = IF Cached(key) THEN cache
              ELSE [k \in DOMAIN cache \cup {key} |->
                      IF k = key THEN [tags |-> tags, life |-> life, storedAt |-> cacheNow]
                      ELSE cache[k]]
  /\ UNCHANGED <<cacheNow, cacheTicks>>
  /\ UNCHANGED <<gateVars, repoVars, discVars, pathCall>>

CacheInit ==
  /\ cache = NoEntries
  /\ cacheNow = 0
  /\ cacheTicks = 0
  /\ cacheLast = NoCacheCall
  /\ dirents = NoListing
  /\ disc = NotCalled
  /\ pathCall = NoPathCall
  \* the gate and the repository at rest
  /\ posts = [s \in GateSlugs |-> Missing]
  /\ cookies = [n \in {} |-> 0]
  /\ now = 0
  /\ ticks = 0
  /\ last = NoCall
  /\ grant = [s \in GateSlugs |-> NoGrant]
  /\ grantPw = [s \in GateSlugs |-> NoPassword]
  /\ pwChanged = [s \in GateSlugs |-> FALSE]
  /\ intervened = [s \in GateSlugs |-> FALSE]
  /\ rootExists = TRUE
  /\ files = [name \in DirNames |-> [kind |-> "noindex"]]
  /\ op = "idle"
  /\ slugs = << >>
  /\ results = << >>
  /\ completion = << >>
  /\ returned = Idle
  /\ generatedPosts = << >>

\* listPostsCached() is called
ListPostsCached == CacheRead(ListKey, listPostsCachedTags, CacheLifeHours)

\* getPostBySlugCached(slug) is called
GetPostBySlugCached(slug) ==
  CacheRead(PostKey(slug), getPostBySlugCachedTags(slug), CacheLifeHours)

\* revalidateTag(tag): every entry that carries the tag is evicted
RevalidateTag(tag) ==
  /\ cache' = [k \in {key \in DOMAIN cache : tag \notin cache[key].tags} |-> cache[k]]
  /\ cacheLast' = [op |-> "revalidateTag", tag |-> tag, before |-> cache]
  /\ UNCHANGED <<cacheNow, cacheTicks>>
  /\ UNCHANGED <<gateVars, repoVars, discVars, pathCall>>

\* time passes
CacheTick(d) ==
  /\ cacheTicks < MaxCacheTicks
  /\ cacheNow' = cacheNow + d
  /\ cacheTicks' = cacheTicks + 1
  /\ cacheLast' = NoCacheCall
  /\ UNCHANGED cache
  /\ UNCHANGED <<gateVars, repoVars, discVars, pathCall>>

CacheNext ==
  \/ ListPostsCached
  \/ \E slug \in CachedSlugs : GetPostBySlugCached(slug)
  \/ \E tag \in CacheTags : RevalidateTag(tag)
  \/ \E d \in CacheSteps : CacheTick(d)

\* the server actions of the access gate
Spec == GateInit /\ [][GateNext]_vars

\* the operations of the post repository
RepoSpec == RepoInit /\ [][RepoNext]_vars

\* one call of listPostSlugs over a posts root
DiscSpec == DiscInit /\ [][DiscNext]_vars

\* one call of resolvePostFilePath
PathSpec == PathInit /\ [][PathNext]_vars

\* the cached reads and the invalidations of the live posts.ts
CacheSpec == CacheInit /\ [][CacheNext]_vars

(***************************************************************************)
(* Properties of the access gate                                           *)
(***************************************************************************)
\* the last call was made on a protected post with a configured password
OnConfigured ==
  /\ last.op \in {"load", "verify"}
  /\ last.post # Missing
  /\ last.post.frontmatter.access = "protected"
  /\ ~PasswordMissing(last.post.frontmatter)

\* the last call was a verification that submitted the string p
Submitted(p) ==
  /\ last.op = "verify"
  /\ "password" \in last.form.fields
  /\ last.form.password = p

\* the cookie of the slug that the caller presented to the last call
Presented ==
  {last.before[n] : n \in {m \in DOMAIN last.before :
      m = protectedCookieName(last.slug) /\ last.at < last.before[m].expires}}

\* C1: a verification with the configured password sets the cookie
\* protected-post-<slug> to the SHA-256 digest of the configured password,
\* never to the password itself, and returns success with the content.
C1_CorrectPasswordIssuesHash ==
  (OnConfigured /\ Submitted(last.post.frontmatter.password)) =>
    /\ last.out.result = [success |-> TRUE, content |-> "body of " \o last.slug]
    /\ protectedCookieName(last.slug) \in DOMAIN cookies
    /\ cookies[protectedCookieName(last.slug)].value = sha256(last.post.frontmatter.password)
    /\ cookies[protectedCookieName(last.slug)].value # last.post.frontmatter.password

C1_Witness ==
  /\ OnConfigured
  /\ Submitted(last.post.frontmatter.password)
  /\ last.out.wrote

\* C2: a verification with a submitted password that differs from the
\* configured one returns an error without content and leaves the whole
\* cookie store as it was.
C2_WrongPasswordSetsNothing ==
  (OnConfigured /\ last.op = "verify" /\ "password" \in last.form.fields
     /\ last.form.password # last.post.frontmatter.password) =>
    /\ DOMAIN last.out.result = {"error"}
    /\ cookies = last.before

C2_Witness ==
  /\ OnConfigured
  /\ last.op = "verify"
  /\ "password" \in last.form.fields
  /\ last.form.password \notin {"", last.post.frontmatter.password}
  /\ last.before # [n \in {} |-> 0]
  /\ last.out.result = [error |-> MismatchError]

\* C3: a read of a protected post with a configured password, presenting no
\* cookie of the slug or one that differs from the digest of the configured
\* password, returns the unauthenticated result: success false, no content,
\* no error, and not the not-found signal.
C3_UnverifiedReadIsUnauthenticated ==
  (OnConfigured /\ last.op = "load"
     /\ \A c \in Presented : c.value # sha256(last.post.frontmatter.password)) =>
    /\ last.out.result = [success |-> FALSE]
    /\ last.out.result # NotFound
    /\ DOMAIN last.out.result \cap {"content", "error"} = {}

C3_Witness ==
  /\ OnConfigured
  /\ last.op = "load"
  /\ Presented # {}
  /\ \A c \in Presented : c.value # sha256(last.post.frontmatter.password)
  /\ last.out.result = [success |-> FALSE]

\* C4: after a successful verification of a slug, a read of the slug returns
\* the content while the issued cookie is still held and the password was not
\* edited, whatever failed verifications or calls on other slugs intervened.
C4_VerifiedReadReturnsContent ==
  (last.op = "load" /\ grant[last.slug] # NoGrant /\ ~pwChanged[last.slug]
     /\ Presented # {}) =>
    last.out.result = [success |-> TRUE, content |-> "body of " \o last.slug]

C4_Witness ==
  /\ last.op = "load"
  /\ grant[last.slug] # NoGrant
  /\ grant[last.slug] < last.at
  /\ ~pwChanged[last.slug]
  /\ intervened[last.slug]
  /\ Presented # {}
  /\ last.out.result = [success |-> TRUE, content |-> "body of " \o last.slug]

\* C5: on a protected post without a password both calls return the
\* configuration error, never content, and write no cookie.
C5_MisconfiguredIsError ==
  (last.op \in {"load", "verify"} /\ last.post # Missing
     /\ last.post.frontmatter.access = "protected"
     /\ "password" \notin DOMAIN last.post.frontmatter) =>
    /\ last.out.result = [error |-> ConfigError]
    /\ ~last.out.wrote
    /\ cookies = last.before

C5_Witness ==
  /\ last.op = "verify"
  /\ last.post # Missing
  /\ last.post.frontmatter = [access |-> "protected"]
  /\ Presented # {}
  /\ "password" \in last.form.fields
  /\ last.out.result = [error |-> ConfigError]

\* C6: on a post whose access is not protected both calls return success with
\* the content, neither reading nor writing the cookie store, whatever was
\* submitted.
C6_UnprotectedBypassesGate ==
  (last.op \in {"load", "verify"} /\ last.post # Missing
     /\ last.post.frontmatter.access # "protected") =>
    /\ last.out.result = [success |-> TRUE, content |-> "body of " \o last.slug]
    /\ ~last.out.read
    /\ ~last.out.wrote
    /\ cookies = last.before

C6_Witness ==
  /\ last.op = "verify"
  /\ last.post # Missing
  /\ last.post.frontmatter.access \in {"public", "unlisted", "private"}
  /\ last.form = EmptyForm
  /\ last.out.result = [success |-> TRUE, content |-> last.post.content]

\* the lifetime the documentation states, in seconds
TwelveHours == 12 * 3600

\* C7: a credential lives twelve hours from the verification that issued it:
\* a read less than twelve hours after it is granted, a read does not change
\* the cookie store, and a read twelve hours or more after the last
\* successful verification is unauthenticated again.
C7_TwelveHourLifetime ==
  /\ (OnConfigured /\ last.op = "verify" /\ last.out.wrote) =>
       cookies[protectedCookieName(last.slug)].expires = last.at + TwelveHours
  /\ last.op = "load" => cookies = last.before
  /\ (OnConfigured /\ last.op = "load" /\ grant[last.slug] # NoGrant
        /\ ~pwChanged[last.slug] /\ last.at < grant[last.slug] + TwelveHours) =>
       last.out.result = [success |-> TRUE, content |-> "body of " \o last.slug]
  /\ (OnConfigured /\ last.op = "load"
        /\ (grant[last.slug] = NoGrant \/ last.at >= grant[last.slug] + TwelveHours)) =>
       last.out.result = [success |-> FALSE]

C7_Witness ==
  /\ OnConfigured
  /\ last.op = "load"
  /\ grant[last.slug] # NoGrant
  /\ ~pwChanged[last.slug]
  /\ last.at = grant[last.slug] + TwelveHours
  /\ last.out.result = [success |-> FALSE]

(***************************************************************************)
(* Properties of the post repository                                       *)
(***************************************************************************)
\* what listPosts handed to the caller of the last operation
Listing == IF "all" \in DOMAIN returned THEN returned.all ELSE returned.value

\* C8: the entries of a build / live listing are exactly the entries of the
\* slugs whose task succeeded, in discovery (sorted slug) order, whatever the
\* order in which the tasks settled and whichever other slugs failed.
C8_EntriesInDiscoveryOrder ==
  (returned.op \in {"buildPosts", "listPosts", "listPublicPosts"}
     /\ "thrown" \notin DOMAIN returned) =>
    LET succeeded == SelectSeq(slugs, LAMBDA s : files[s].kind = "valid") IN
    /\ \A i, j \in 1..Len(slugs) : i < j => localeCompare(slugs[i], slugs[j]) < 0
    /\ Len(Listing) = Len(succeeded)
    /\ \A i \in 1..Len(succeeded) :
         /\ Listing[i].slug = succeeded[i]
         /\ restoreDates(Listing[i]).frontmatter = files[succeeded[i]].frontmatter

C8_Witness ==
  /\ returned.op = "buildPosts"
  /\ "value" \in DOMAIN returned
  /\ Len(slugs) = 3
  /\ completion = <<3, 2, 1>>
  /\ results[2].status = "rejected"
  /\ Len(returned.value) = 2
  /\ "date" \in DOMAIN returned.value[1].frontmatter

\* C9 (as claimed): when slugs are discovered and every task fails, the
\* operation throws instead of returning an empty list, in the build, in the
\* live listPosts and in the snapshot-backed listPosts.
C9_ZeroEntriesIsFatal ==
  /\ (returned.op \in {"buildPosts", "listPosts"} /\ Len(slugs) > 0
        /\ \A i \in 1..Len(slugs) : results[i].status = "rejected") =>
       "thrown" \in DOMAIN returned
  /\ (returned.op = "snapshot.listPosts" /\ Len(generatedPosts) = 0) =>
       "thrown" \in DOMAIN returned

Dated(post) == "date" \in DOMAIN post.frontmatter

\* C10: listPublicPosts returns exactly the public posts of listPosts, by
\* date descending, every undated post after all dated ones.
C10_PublicPostsByDate ==
  (returned.op \in {"listPublicPosts", "snapshot.listPublicPosts"}
     /\ "thrown" \notin DOMAIN returned) =>
    /\ Range(returned.value) = {post \in Range(returned.all) : post.frontmatter.access = "public"}
    /\ Cardinality(Range(returned.value)) = Len(returned.value)
    /\ \A i, j \in 1..Len(returned.value) :
         (i < j /\ Dated(returned.value[j])) =>
           /\ Dated(returned.value[i])
           /\ returned.value[i].frontmatter.date.getTime >= returned.value[j].frontmatter.date.getTime

C10_Witness ==
  /\ returned.op = "snapshot.listPublicPosts"
  /\ "value" \in DOMAIN returned
  /\ Len(returned.all) = 3
  /\ ~Dated(returned.all[1])
  /\ returned.all[2].frontmatter.access = "private"
  /\ Len(returned.value) = 2
  /\ returned.value[2] = returned.all[1]

(***************************************************************************)
(* Properties of content discovery                                         *)
(***************************************************************************)
\* the immediate subdirectories of the root that are not hidden
VisibleDirs ==
  {name \in DOMAIN dirents : dirents[name].isDirectory /\ ~startsWith(name, <<".">>)}

\* those that contain the entry file
PostDirs == {name \in VisibleDirs : dirents[name].hasIndex}

\* every visible directory name is a valid slug
ValidNamesOnly == \A name \in VisibleDirs : "value" \in DOMAIN normalizeSlug(name)

\* no entry name has whitespace around it
TrimmedNamesOnly == \A name \in DOMAIN dirents : trim(name) = name

\* listPostSlugs returned exactly the directories with an entry file, sorted
\* and without duplicates
ReturnedPostDirs ==
  /\ "value" \in DOMAIN disc.result
  /\ Range(disc.result.value) = PostDirs
  /\ \A i, j \in 1..Len(disc.result.value) :
       i < j => localeCompareStrings(disc.result.value[i], disc.result.value[j]) < 0

\* C11: over a root whose visible directory names are all valid slugs and
\* that holds at least one post, listPostSlugs returns exactly the visible
\* directories that contain index.md, sorted and without duplicates, in every
\* order in which the existence checks complete
C11_DiscoveryIsExactAndSorted ==
  (disc.pc = "done" /\ ValidNamesOnly /\ PostDirs # {}) => ReturnedPostDirs

\* the same, over roots whose entry names have no whitespace around them
DiscoveryOfTrimmedNames ==
  (disc.pc = "done" /\ ValidNamesOnly /\ TrimmedNamesOnly /\ PostDirs # {})
    => ReturnedPostDirs

\* C16: a visible directory whose name is not a valid slug is left out and
\* listPostSlugs still returns the valid slugs that have an entry file
C16_InvalidNamesAreFiltered ==
  (disc.pc = "done" /\ ~ValidNamesOnly /\ TrimmedNamesOnly /\ PostDirs # {})
    => /\ "value" \in DOMAIN disc.result
       /\ Range(disc.result.value) =
            {name \in PostDirs : "value" \in DOMAIN normalizeSlug(name)}

(***************************************************************************)
(* Properties of path resolution                                           *)
(***************************************************************************)
\* the call was made
Resolved == "result" \in DOMAIN pathCall

\* the slug, its single leading slash stripped, is empty, "." or ".." or
\* contains a path separator
Unsafe(slug) ==
  LET stripped == stripLeadingSlash(slug) IN
  \/ stripped \in {<< >>, <<".">>, <<".", ".">>}
  \/ includes(stripped, "/")
  \/ includes(stripped, "\\")

\* the path lies strictly inside the root: below it, and with no segment
\* that leads up again
StrictlyInside(candidate, root) ==
  /\ startsWith(candidate, root \o <<PathSep>>)
  /\ Len(candidate) > Len(root) + 1
  /\ \A i \in 1..Len(SplitPath(candidate)) :
       SplitPath(candidate)[i] \notin {<<".">>, <<".", ".">>}

\* C12: resolvePostFilePath fails with an invalid-slug error or returns a
\* path strictly inside the root, and it fails for every slug that is empty,
\* ".", ".." or contains a path separator once its leading slash is stripped
C12_ResolvedPathStaysInside ==
  Resolved =>
    /\ IF "thrown" \in DOMAIN pathCall.result
         THEN pathCall.result.thrown = "Invalid slug"
         ELSE StrictlyInside(pathCall.result.value, PostsRoot)
    /\ Unsafe(pathCall.slug) => "thrown" \in DOMAIN pathCall.result

\* the traversal slug "../../etc/passwd" was resolved and rejected
C12_Witness ==
  /\ Resolved
  /\ pathCall.slug = EtcPasswd
  /\ pathCall.result = InvalidSlug(EtcPasswd)

(***************************************************************************)
(* Properties of single-post reads                                         *)
(***************************************************************************)
\* the last operation was a getPostBySlug call
Fetched == returned.op \in {"getPostBySlug", "snapshot.getPostBySlug"}

\* the post that the directory of the name holds
PostIn(name) ==
  [frontmatter |-> files[name].frontmatter, content |-> "body of " \o name]

\* the slug's entry exists and is valid for the variant that was called
EntryIsValid(name) ==
  IF returned.op = "getPostBySlug"
    THEN rootExists /\ files[name].kind = "valid"
    ELSE \E i \in 1..Len(generatedPosts) : generatedPosts[i].slug = name

\* C13: getPostBySlug returns the frontmatter and content of a slug whose
\* entry exists and is valid, and ends in the one not-found signal otherwise:
\* for a missing root or file, an invalid slug, a read error and invalid
\* frontmatter alike; nothing else is thrown
C13_FailuresCollapseToNotFound ==
  Fetched =>
    /\ "thrown" \in DOMAIN returned.out => returned.out = NotFound
    /\ "thrown" \in DOMAIN returned.cached => returned.out = NotFound
    /\ \A name \in DirNames :
         returned.slug = <<name>> =>
           returned.out = IF EntryIsValid(name) THEN PostIn(name) ELSE NotFound
    /\ returned.slug \in {<<"g">>, <<".", ".", "/", "a">>} => returned.out = NotFound

\* a post with invalid frontmatter was requested and the call ended in the
\* not-found signal
C13_Witness ==
  /\ Fetched
  /\ "thrown" \in DOMAIN returned.cached
  /\ returned.cached.thrown = "FrontmatterValidationError"
  /\ returned.out = NotFound

(***************************************************************************)
(* Properties of the gate over several slugs                               *)
(***************************************************************************)
\* the cookie of the slug, expired or not, or the absence of one
CookieOf(store, slug) ==
  IF protectedCookieName(slug) \in DOMAIN store
    THEN store[protectedCookieName(slug)]
    ELSE [absent |-> TRUE]

\* C15: loadProtectedPost(s) returns the content of a protected post s only
\* if the last successful verifyProtectedPostPassword of the same slug s was
\* made with the password now configured for s, whatever was verified for
\* other slugs; and a verification leaves the cookie of every other slug as
\* it was
C15_CredentialsArePerSlug ==
  /\ (/\ last.op = "load"
      /\ last.post # Missing
      /\ last.post.frontmatter.access = "protected"
      /\ "content" \in DOMAIN last.out.result)
       => /\ grant[last.slug] # NoGrant
          /\ grant[last.slug] <= last.at
          /\ ~PasswordMissing(last.post.frontmatter)
          /\ grantPw[last.slug] = last.post.frontmatter.password
  /\ last.op = "verify" =>
       \A other \in GateSlugs \ {last.slug} :
         CookieOf(cookies, other) = CookieOf(last.before, other)

\* slugs a and b are protected by the same password, a holds an unexpired
\* credential, b was never verified, and loadProtectedPost(b) is refused
C15_Witness ==
  /\ last.op = "load"
  /\ last.slug = "b"
  /\ posts["a"] # Missing /\ posts["b"] # Missing
  /\ posts["a"].frontmatter.access = "protected"
  /\ posts["b"].frontmatter.access = "protected"
  /\ ~PasswordMissing(posts["a"].frontmatter)
  /\ ~PasswordMissing(posts["b"].frontmatter)
  /\ posts["a"].frontmatter.password = posts["b"].frontmatter.password
  /\ grant["a"] # NoGrant
  /\ grantPw["a"] = posts["a"].frontmatter.password
  /\ hasProtectedAccess("a", sha256(posts["a"].frontmatter.password))
  /\ grant["b"] = NoGrant
  /\ last.out.result = [success |-> FALSE]

(***************************************************************************)
(* Properties of the cache                                                 *)
(***************************************************************************)
OneHour == 3600

====
